---- MODULE Spec2Model ----
(***************************************************************************)
(* A model of export_image.py: the calendar export pipeline                *)
(*   load_html -> parse_calids_from_html -> download_calendars ->          *)
(*   get_calendar_events -> get_future_events -> sorted ->                 *)
(*   events_to_html_table -> write_pdf_from_html -> export_to_png.         *)
(*                                                                         *)
(* Time.  An aware datetime is modelled by its instant, in hours since an  *)
(* epoch (UTC); a bare date by its day number.  TIMEZONE is modelled by a  *)
(* fixed offset east of UTC (daylight saving is not modelled: it moves no  *)
(* local midnight).                                                        *)
(* Text.  A string the code inspects character by character (the document *)
(* the regular expression scans, a file name glob matches, a summary the   *)
(* sort compares) is a sequence of one-character strings.                  *)
(***************************************************************************)
EXTENDS Integers, Sequences, FiniteSets, TLC

VARIABLES
    pc,            \* position of the run in the code
    error,         \* the exception that ended the run, or "none"
    clock,         \* the wall clock datetime.now(TIMEZONE) reads (an instant)
    start_of_day,  \* args.start_of_day
    now,           \* get_future_events' reference instant
    evtdata,       \* the events handed to get_future_events, in input order
    future,        \* the events get_future_events has yielded so far
    events,        \* main's sorted list
    rows,          \* the <tr> rows events_to_html_table joined into the body
    caldata,       \* the calendar references parse_calids_from_html yields
    fetchLog,      \* every urlopen of a calendar feed, in order: <<index, calid, outcome>>
    output,        \* args.output, made absolute
    files,         \* the PNG files on disk: file name -> "old" | "new"
    initFiles,     \* the PNG files on disk when the run started
    html_exists,   \* the temporary HTML file exists
    htmlWritten,   \* the run has written the temporary HTML file
    pdf_exists,    \* the PDF at output_path exists
    npages,        \* pages of the opened PDF
    page,          \* pages of the PDF saved so far
    renderer,      \* whether the browser ever writes the PDF: "writes" | "never"
    elapsed,       \* time.time() - start_time, in tenths of a second
    doc,           \* the document text parse_calids_from_html scans
    expected,      \* the {id, clr} literals the document was built from
    found          \* what parse_calids_from_html yielded

timeVars  == <<clock, start_of_day, now>>
evtVars   == <<evtdata, future, events, rows>>
netVars   == <<caldata, fetchLog>>
fileVars  == <<output, files, initFiles, html_exists, htmlWritten, pdf_exists, npages, page>>
pollVars  == <<renderer, elapsed>>
regexVars == <<doc, expected, found>>
vars == <<pc, error, timeVars, evtVars, netVars, fileVars, pollVars, regexVars>>

----------------------------------------------------------------------------
(* Bounds of the model *)

MaxDay == 1          \* calendar days 0..MaxDay carry events
MaxEvents == 2       \* events in one input sequence
MaxCals == 2         \* calendar references in the source document
MaxPages == 2        \* pages of the rendered PDF
MaxOversleep == 1    \* tenths of a second time.sleep(0.1) may oversleep
MaxPieces == 3       \* pieces a scanned document is built from

----------------------------------------------------------------------------
(* Dates and datetimes *)

\* TIMEZONE = ZoneInfo("Europe/Budapest"): local time = UTC + UTCOffset hours
UTCOffset == 1

Date(d) == [kind |-> "date", day |-> d]
DateTime(t) == [kind |-> "datetime", t |-> t]

\* datetime(y, m, d, tzinfo=TIMEZONE): local midnight of day d, as an instant
LocalMidnight(d) == DateTime(24 * d - UTCOffset)

\* dt.astimezone(TIMEZONE): the local calendar day and hour of an instant
LocalDay(t) == (t + UTCOffset) \div 24
LocalHour(t) == (t + UTCOffset) % 24

\* get_time: a datetime as is, a date as midnight of that date in TIMEZONE
get_time(dt) ==
    IF dt.kind = "datetime" THEN dt ELSE LocalMidnight(dt.day)

\* now < get_time(x): comparison of two aware datetimes compares instants
DtLess(a, b) == a.t < b.t

----------------------------------------------------------------------------
(* Events *)

None == "None"

Event(summary, location, start, end, clr) ==
    [summary |-> summary, location |-> location, start |-> start, end |-> end,
     clr |-> clr]

\* get_future_events, line 169-171: the reference instant
ReferenceInstant(clk, sod) ==
    IF sod THEN LocalMidnight(LocalDay(clk)) ELSE DateTime(clk)

\* a filter that also keeps an event ending exactly at the reference instant
IsFutureInclusive(ref, evt) == ~DtLess(get_time(evt.end), ref)

\* get_future_events, line 172: (evt for evt in evtdata if now < get_time(evt['end']))
IsFuture(ref, evt) == DtLess(ref, get_time(evt.end))

RECURSIVE FutureOf(_, _)
FutureOf(ref, evts) ==
    IF evts = <<>> THEN <<>>
    ELSE IF IsFuture(ref, Head(evts))
         THEN <<Head(evts)>> \o FutureOf(ref, Tail(evts))
         ELSE FutureOf(ref, Tail(evts))

\* ord() of the characters summaries are made of
Ord(c) == CASE c = "A" -> 65 [] c = "B" -> 66 [] OTHER -> 0

\* str.__lt__: lexicographic by code point, a proper prefix is smaller
RECURSIVE StrLess(_, _)
StrLess(a, b) ==
    IF b = <<>> THEN FALSE
    ELSE IF a = <<>> THEN TRUE
    ELSE IF Ord(Head(a)) # Ord(Head(b)) THEN Ord(Head(a)) < Ord(Head(b))
    ELSE StrLess(Tail(a), Tail(b))

\* a sort key that leaves the summary out
SortKeyStartOnly(evt) == <<get_time(evt.start), <<>> >>

\* the sort key of main, line 268, and tuple.__lt__ on two keys
SortKey(evt) == <<get_time(evt.start), evt.summary>>

KeyLess(a, b) ==
    IF a[1].t # b[1].t THEN DtLess(a[1], b[1]) ELSE StrLess(a[2], b[2])

\* sorted(): a stable sort; x goes behind every element that is not greater
RECURSIVE InsertSorted(_, _)
InsertSorted(s, x) ==
    IF s = <<>> THEN <<x>>
    ELSE IF KeyLess(SortKey(x), SortKey(s[Len(s)]))
         THEN InsertSorted(SubSeq(s, 1, Len(s) - 1), x) \o <<s[Len(s)]>>
         ELSE s \o <<x>>

RECURSIVE Sorted(_)
Sorted(s) ==
    IF s = <<>> THEN <<>>
    ELSE InsertSorted(Sorted(SubSeq(s, 1, Len(s) - 1)), s[Len(s)])

\* a format_dt that takes the day off every bare date, start or end
format_dt_always_back(dt, end) ==
    IF dt.kind = "datetime"
    THEN <<LocalDay(dt.t), LocalHour(dt.t)>>
    ELSE <<dt.day - 1>>

\* format_dt, lines 178-183.  '%Y.%m.%d.' is <<day>>, '%Y.%m.%d. %H:%M' is
\* <<day, hour>>, both of the value converted to TIMEZONE.
format_dt(dt, end) ==
    LET shown == IF end /\ dt.kind # "datetime" THEN Date(dt.day - 1) ELSE dt
    IN  IF shown.kind = "datetime"
        THEN <<LocalDay(shown.t), LocalHour(shown.t)>>
        ELSE <<shown.day>>

\* one <tr> of events_to_html_table, lines 187-193
Row(evt) ==
    [clr |-> evt.clr,
     start |-> format_dt(evt.start, FALSE),
     end |-> format_dt(evt.end, TRUE),
     summary |-> evt.summary,
     location |-> IF evt.location = None THEN "" ELSE evt.location]

\* a table body with a filler row behind the data rows
TableRowsWithFiller(evts) ==
    [i \in 1..(Len(evts) + 1) |->
        IF i <= Len(evts) THEN Row(evts[i])
        ELSE [clr |-> "", start |-> <<>>, end |-> <<>>, summary |-> <<>>,
              location |-> ""]]

\* the table body of events_to_html_table, lines 185-193: one row per event
TableRows(evts) == [i \in 1..Len(evts) |-> Row(evts[i])]

----------------------------------------------------------------------------
(* Inputs of the event functions *)

Summaries == {<<"A">>, <<"B">>}

\* instants on the grid: 00:00 and 23:00 UTC, the second being local midnight
SampleInstants == {24 * d + h : d \in 0..MaxDay, h \in {0, 23}}

\* an all-day event of day d (DTEND is the day after), a one-hour event at t
Spans ==
    {<<Date(d), Date(d + 1), None>> : d \in 0..MaxDay}
    \cup {<<DateTime(t), DateTime(t + 1), "Ring">> : t \in SampleInstants}

EventUniverse ==
    {Event(s, sp[3], sp[1], sp[2], "#f00") : s \in Summaries, sp \in Spans}

ClockValues == SampleInstants \cup {t + 1 : t \in SampleInstants}

SeqsUpTo(S, n) == UNION {[1..k -> S] : k \in 0..n}

----------------------------------------------------------------------------
(* The values of the variables a specification does not use *)

IdleTime  == clock = 0 /\ start_of_day = FALSE /\ now = DateTime(0)
IdleEvt   == evtdata = <<>> /\ future = <<>> /\ events = <<>> /\ rows = <<>>
IdleNet   == caldata = <<>> /\ fetchLog = <<>>
IdleFile  == /\ output = <<>> /\ files = <<>> /\ initFiles = <<>>
             /\ html_exists = FALSE /\ htmlWritten = FALSE /\ pdf_exists = FALSE
             /\ npages = 0 /\ page = 0
IdlePoll  == renderer = "writes" /\ elapsed = 0
IdleRegex == doc = <<>> /\ expected = <<>> /\ found = <<>>

----------------------------------------------------------------------------
(* The event functions, applied to drawn inputs: filter, sort, render *)

InitEvents ==
    /\ pc = "filter" /\ error = "none"
    /\ clock \in ClockValues
    /\ start_of_day \in BOOLEAN
    /\ now = DateTime(0)
    /\ evtdata \in SeqsUpTo(EventUniverse, MaxEvents)
    /\ future = <<>> /\ events = <<>> /\ rows = <<>>
    /\ IdleNet /\ IdleFile /\ IdlePoll /\ IdleRegex

\* get_future_events(evtdata, start_of_day), lines 167-172
GetFutureEvents ==
    /\ pc = "filter"
    /\ now' = ReferenceInstant(clock, start_of_day)
    /\ future' = FutureOf(now', evtdata)
    /\ pc' = "sort"
    /\ UNCHANGED <<error, clock, start_of_day, evtdata, events, rows,
                   netVars, fileVars, pollVars, regexVars>>

\* events = sorted(evtdata, key=...), line 268: on the filter's whole output, which
\* in main is complete once the calendar generators are exhausted
SortEvents ==
    /\ pc = "sort"
    /\ events' = Sorted(future)
    /\ pc' = "render"
    /\ UNCHANGED <<error, timeVars, evtdata, future, rows,
                   netVars, fileVars, pollVars, regexVars>>

\* html = events_to_html_table(events), line 270
EventsToHtmlTable ==
    /\ pc = "render"
    /\ rows' = TableRows(events)
    /\ pc' = "rendered"
    /\ UNCHANGED <<error, timeVars, evtdata, future, events,
                   netVars, fileVars, pollVars, regexVars>>

NextEvents == GetFutureEvents \/ SortEvents \/ EventsToHtmlTable

SpecEvents == InitEvents /\ [][NextEvents]_vars

----------------------------------------------------------------------------
(* Properties of the event functions (checked under SpecEvents) *)

\* the normalized instant of a start or end value, as the claims state it
NormInstant(v) == IF v.kind = "date" THEN 24 * v.day - UTCOffset ELSE v.t

Count(s, x) == Cardinality({i \in 1..Len(s) : s[i] = x})
Range(s) == {s[i] : i \in 1..Len(s)}

\* the indices of evtdata whose normalized end is strictly after the reference
RetainedIdx == {i \in 1..Len(evtdata) : NormInstant(evtdata[i].end) > now.t}
NthRetained(k) ==
    CHOOSE i \in RetainedIdx : Cardinality({j \in RetainedIdx : j <= i}) = k

\* C1: get_future_events retains an event iff its normalized end is strictly
\* greater than the reference instant (an end equal to it is excluded), and the
\* retained events keep their input order.
C1_FilterStrictAndOrdered ==
    pc \in {"sort", "render", "rendered"} =>
        /\ Len(future) = Cardinality(RetainedIdx)
        /\ \A k \in 1..Len(future) : future[k] = evtdata[NthRetained(k)]

\* C1's case: an event ending exactly at the reference instant was dropped, a
\* bare-date end was normalized, and a later event was kept
C1_Witness ==
    /\ pc = "sort"
    /\ Len(evtdata) = 2 /\ Len(future) = 1
    /\ evtdata[1].end.kind = "date"
    /\ NormInstant(evtdata[1].end) = now.t
    /\ future[1] = evtdata[2]

ShownInstant(txt) == 24 * txt[1] + txt[2] - UTCOffset

ShownAsOwnInstant(v, txt) ==
    Len(txt) = 2 /\ txt[2] \in 0..23 /\ ShownInstant(txt) = v.t

\* C8: in every row a date-only end D is displayed as D minus one day, a
\* date-only start as its own date, and a date-time start or end as its own
\* instant with HH:MM.
C8_EndDateShownDayBefore ==
    pc = "rendered" =>
        /\ Len(rows) = Len(events)
        /\ \A i \in 1..Len(rows) :
               /\ events[i].end.kind = "date" =>
                      rows[i].end = <<events[i].end.day - 1>>
               /\ events[i].start.kind = "date" =>
                      rows[i].start = <<events[i].start.day>>
               /\ events[i].end.kind = "datetime" =>
                      ShownAsOwnInstant(events[i].end, rows[i].end)
               /\ events[i].start.kind = "datetime" =>
                      ShownAsOwnInstant(events[i].start, rows[i].start)

\* C8's case: a rendered all-day event and a rendered timed event whose local
\* day is not its UTC day
C8_Witness ==
    /\ pc = "rendered"
    /\ \E i \in 1..Len(rows) :
           events[i].end.kind = "date" /\ rows[i].end[1] = events[i].start.day
    /\ \E i \in 1..Len(rows) :
           /\ events[i].start.kind = "datetime"
           /\ rows[i].start[1] # events[i].start.t \div 24

\* C10: for every retained event with a date-only end, the end date displayed in
\* its row is not earlier than the calendar date of the reference instant in
\* the fixed timezone.
C10_ShownEndNotPast ==
    pc = "rendered" =>
        \A i \in 1..Len(rows) :
            events[i].end.kind = "date" =>
                rows[i].end[1] >= (now.t + UTCOffset) \div 24

\* C10's case: an all-day event whose last day is today is shown as ending
\* today, the reference instant being some time after local midnight
C10_Witness ==
    /\ pc = "rendered"
    /\ Len(rows) = 1
    /\ events[1].end.kind = "date"
    /\ rows[1].end[1] = (now.t + UTCOffset) \div 24
    /\ ~start_of_day
    /\ now.t > 24 * (events[1].end.day - 1) - UTCOffset

----------------------------------------------------------------------------
(* parse_calids_from_html: the regular expression of line 135 and finditer *)

HexChars ==
    {"0", "1", "2", "3", "4", "5", "6", "7", "8", "9",
     "a", "b", "c", "d", "e", "f", "A", "B", "C", "D", "E", "F"}

\* a character class that takes either quote only when it is a double quote
InClassDoubleQuoteOnly(c, cls) ==
    CASE cls = "ws"  -> c \in {" ", "\t", "\n", "\r"}
      [] cls = "q"   -> c = "\""
      [] cls = "nq"  -> c \notin {"'", "\""}
      [] cls = "hex" -> c \in HexChars
      [] OTHER       -> c = cls

\* the classes of the pattern: \s, ['\"], [^'\"], [0-9A-Fa-f], or the character
InClass(c, cls) ==
    CASE cls = "ws"  -> c \in {" ", "\t", "\n", "\r"}
      [] cls = "q"   -> c \in {"'", "\""}
      [] cls = "nq"  -> c \notin {"'", "\""}
      [] cls = "hex" -> c \in HexChars
      [] OTHER       -> c = cls

One(cls)  == [rep |-> "one", cls |-> cls, mark |-> 0]
Star(cls) == [rep |-> "star", cls |-> cls, mark |-> 0]
Mark(n)   == [rep |-> "mark", cls |-> "", mark |-> n]

\* {\s*['\"]id['\"]\s*:\s*['\"](?P<calid>[^'\"]+)['\"]\s*,\s*['\"]clr['\"]\s*:
\* \s*['\"](?P<clr>#[0-9A-Fa-f]+)['\"]\s*}    with X+ written X X*, and the
\* groups' bounds as marks 1..4
Pattern ==
    <<One("{"), Star("ws"), One("q"), One("i"), One("d"), One("q"), Star("ws"),
      One(":"), Star("ws"), One("q"),
      Mark(1), One("nq"), Star("nq"), Mark(2),
      One("q"), Star("ws"), One(","), Star("ws"),
      One("q"), One("c"), One("l"), One("r"), One("q"), Star("ws"),
      One(":"), Star("ws"), One("q"),
      Mark(3), One("#"), One("hex"), Star("hex"), Mark(4),
      One("q"), Star("ws"), One("}")>>

NoMatch == [ok |-> FALSE, end |-> 0, m |-> <<0, 0, 0, 0>>]

\* pattern.match at position i, from pattern item p on.  Each repetition's class
\* excludes the character that must follow it, so the greedy choice is the only
\* one that can succeed and backtracking finds nothing else.
RECURSIVE MatchAt(_, _, _, _)
MatchAt(text, p, i, m) ==
    IF p > Len(Pattern) THEN [ok |-> TRUE, end |-> i, m |-> m]
    ELSE LET it == Pattern[p]
             here == i <= Len(text) /\ InClass(text[i], it.cls)
         IN  CASE it.rep = "mark" ->
                      MatchAt(text, p + 1, i, [m EXCEPT ![it.mark] = i])
               [] it.rep = "one" ->
                      IF here THEN MatchAt(text, p + 1, i + 1, m) ELSE NoMatch
               [] OTHER ->
                      IF here THEN MatchAt(text, p, i + 1, m)
                      ELSE MatchAt(text, p + 1, i, m)

\* m.groupdict()
GroupDict(text, m) ==
    [calid |-> SubSeq(text, m[1], m[2] - 1), clr |-> SubSeq(text, m[3], m[4] - 1)]

\* the positions at which the pattern matches
MatchStarts(text) ==
    {i \in 1..Len(text) : MatchAt(text, 1, i, <<0, 0, 0, 0>>).ok}

\* pattern.finditer(html): the leftmost match at or after pos, then the scan
\* resumes where that match ends, so matches never overlap
RECURSIVE FindIter(_, _, _)
FindIter(text, starts, pos) ==
    LET ahead == {i \in starts : i >= pos}
    IN  IF ahead = {} THEN <<>>
        ELSE LET i == CHOOSE j \in ahead : \A k \in ahead : j <= k
                 r == MatchAt(text, 1, i, <<0, 0, 0, 0>>)
             IN  <<GroupDict(text, r.m)>> \o FindIter(text, starts, r.end)

parse_calids_from_html(html) == FindIter(html, MatchStarts(html), 1)

----------------------------------------------------------------------------
(* Documents: pieces of text, some of them well-formed {id, clr} literals *)

\* { "id": "<id>", "clr": "<clr>" } with quote q and whitespace w between tokens
Literal(q, w, id, clr) ==
    <<"{">> \o w \o <<q, "i", "d", q>> \o w \o <<":">> \o w \o <<q>> \o id \o <<q>>
    \o w \o <<",">> \o w \o <<q, "c", "l", "r", q>> \o w \o <<":">> \o w
    \o <<q>> \o clr \o <<q>> \o w \o <<"}">>

LiteralPiece(q, w, id, clr) ==
    [text |-> Literal(q, w, id, clr), pairs |-> <<[calid |-> id, clr |-> clr]>>]

Junk(text) == [text |-> text, pairs |-> <<>>]

Pieces ==
    { LiteralPiece("\"", <<>>, <<"a", "@", "g">>, <<"#", "f", "0">>),
      LiteralPiece("'", <<" ">>, <<"b">>, <<"#", "A", "b", "C">>),
      LiteralPiece("\"", <<"\n", " ">>, <<"{", " ", "x">>, <<"#", "9">>),
      Junk(<<"v", "a", "r", " ", "c", "=", "[">>),
      Junk(<<"{">>),
      Junk(<<"}", ",">>),
      \* a literal cut short inside its id
      Junk(<<"{", "\"", "i", "d", "\"", ":", "\"">>),
      \* a color without '#', an empty id, a color that is not hexadecimal
      Junk(Literal("\"", <<>>, <<"a">>, <<"f", "0">>)),
      Junk(Literal("'", <<>>, <<>>, <<"#", "f", "0">>)),
      Junk(Literal("\"", <<" ">>, <<"a">>, <<"#", "g">>)) }

RECURSIVE Flatten(_)
Flatten(ps) == IF ps = <<>> THEN <<>> ELSE Head(ps).text \o Flatten(Tail(ps))

InitRegex ==
    /\ pc = "build" /\ error = "none"
    /\ doc = <<>> /\ expected = <<>> /\ found = <<>>
    /\ IdleTime /\ IdleEvt /\ IdleNet /\ IdleFile /\ IdlePoll

\* the document grows by one piece
WriteDocument ==
    /\ pc = "build"
    /\ Len(doc) < MaxPieces
    /\ \E piece \in Pieces :
           /\ doc' = Append(doc, piece)
           /\ expected' = expected \o piece.pairs
    /\ UNCHANGED <<pc, error, found, timeVars, evtVars, netVars, fileVars, pollVars>>

\* caldata = parse_calids_from_html(html), consumed to its end
ParseCalids ==
    /\ pc = "build"
    /\ found' = parse_calids_from_html(Flatten(doc))
    /\ pc' = "parsed"
    /\ UNCHANGED <<error, doc, expected, timeVars, evtVars, netVars, fileVars, pollVars>>

NextRegex == WriteDocument \/ ParseCalids

SpecRegex == InitRegex /\ [][NextRegex]_vars

\* C9: parse_calids_from_html yields exactly the (id, color) pairs of the
\* well-formed literals present in the text, one per occurrence in document
\* order (duplicates kept), with either quote and any whitespace; surrounding
\* text yields no extra pair and hides none.
C9_FindsExactlyTheLiterals ==
    pc = "parsed" => found = expected

\* C9's case: a cut-short literal, then the same single-quoted, spaced literal
\* twice: two equal pairs are found
C9_Witness ==
    /\ pc = "parsed"
    /\ Len(doc) = 3
    /\ doc[1].pairs = <<>> /\ Len(doc[1].text) = 7 /\ doc[1].text[7] = "\""
    /\ doc[2] = doc[3]
    /\ doc[2].pairs # <<>> /\ doc[2].text[3] = "'"
    /\ Len(found) = 2 /\ found[1] = found[2]
    /\ found[1].calid = <<"b">>

----------------------------------------------------------------------------
(* Files: names, glob *)

\* timeout = 10 and time.sleep(0.1), in tenths of a second
Timeout == 100
PollInterval == 1

\* f"{output_path}_{i+1}.png"
PngName(base, k) == base \o <<"_", ToString(k), ".", "p", "n", "g">>

\* f"{output_path}_*.png"
GlobPattern(base) == base \o <<"_", "*", ".", "p", "n", "g">>

\* the position of the "]" closing a "[" at p[1], or 0: as fnmatch.translate,
\* the first character of a class may itself be "]"
ClassEnd(p) ==
    LET js == {j \in 3..Len(p) : p[j] = "]"}
    IN  IF js = {} THEN 0 ELSE CHOOSE j \in js : \A k \in js : j <= k

\* fnmatch: "*" any run, "?" any character, "[seq]" any character of seq, a
\* "[" that is never closed itself (ranges and "!" are not modelled)
RECURSIVE FnMatch(_, _)
FnMatch(p, n) ==
    IF p = <<>> THEN n = <<>>
    ELSE CASE Head(p) = "*" ->
                  \E k \in 0..Len(n) : FnMatch(Tail(p), SubSeq(n, k + 1, Len(n)))
           [] Head(p) = "?" ->
                  n # <<>> /\ FnMatch(Tail(p), Tail(n))
           [] Head(p) = "[" /\ ClassEnd(p) # 0 ->
                  /\ n # <<>>
                  /\ \E j \in 2..(ClassEnd(p) - 1) : p[j] = Head(n)
                  /\ FnMatch(SubSeq(p, ClassEnd(p) + 1, Len(p)), Tail(n))
           [] OTHER ->
                  n # <<>> /\ Head(n) = Head(p) /\ FnMatch(Tail(p), Tail(n))

\* glob.glob(pattern) over the files on disk
Glob(pattern, names) == {n \in names : FnMatch(pattern, n)}

----------------------------------------------------------------------------
(* The run of main() *)

CalRefs == {[calid |-> "x", clr |-> "#f00"], [calid |-> "y", clr |-> "#0f0"]}

\* what each public feed holds: VEVENTs in feed order (summary, location, start, end)
FeedOf(calid) ==
    IF calid = "x"
    THEN << <<"B", "Ring", DateTime(47), DateTime(48)>>,
            <<"A", None, Date(0), Date(1)>> >>
    ELSE << <<"A", None, Date(1), Date(2)>> >>

\* get_calendar_events on one downloaded calendar, lines 148-158
CalendarEvents(cal) ==
    LET feed == FeedOf(cal.calid)
    IN  [i \in 1..Len(feed) |->
            Event(<<feed[i][1]>>, feed[i][2], feed[i][3], feed[i][4], cal.clr)]

OutputBases == {<<"e">>, <<"e", "[", "1", "]">>}

\* images an earlier run may have left: a first page, and under either base a
\* page beyond those of this run
OldNames ==
    {PngName(<<"e">>, 1)} \cup {PngName(b, MaxPages + 1) : b \in OutputBases}

Init ==
    /\ pc = "load" /\ error = "none"
    /\ clock \in {0, 23}
    /\ start_of_day \in BOOLEAN
    /\ now = DateTime(0)
    /\ IdleEvt
    /\ caldata \in SeqsUpTo(CalRefs, MaxCals)
    /\ fetchLog = <<>>
    /\ output \in OutputBases
    /\ initFiles \in SUBSET OldNames
    /\ files = [n \in initFiles |-> "old"]
    /\ html_exists = FALSE /\ htmlWritten = FALSE /\ pdf_exists = FALSE
    /\ npages = 0 /\ page = 0
    /\ renderer \in {"writes", "never"}
    /\ elapsed = 0
    /\ IdleRegex

Fail(err) == pc' = "failed" /\ error' = err

\* sorted() pulls the next calendar, or has the whole input once none is left
AfterCalendar(k) == IF k < Len(caldata) THEN "fetch" ELSE "sort"

\* lines 262-267: load_html runs at once; the generators are only created, and
\* get_future_events reads the clock before any calendar is fetched
LoadHtml ==
    /\ pc = "load"
    /\ \/ /\ now' = ReferenceInstant(clock, start_of_day)
          /\ pc' = AfterCalendar(0)
          /\ UNCHANGED error
       \/ /\ Fail("LoadError")
          /\ UNCHANGED now
    /\ UNCHANGED <<clock, start_of_day, evtdata, future, events, rows,
                   netVars, fileVars, pollVars, regexVars>>

\* a download that goes on to the next calendar when one fails
FetchCalendarSkipFailed ==
    /\ pc = "fetch"
    /\ LET k == Len(fetchLog) + 1
       IN  \E outcome \in {"ok", "urlerror", "status"} :
               /\ fetchLog' = Append(fetchLog, <<k, caldata[k].calid, outcome>>)
               /\ pc' = IF outcome = "ok" THEN "parse" ELSE AfterCalendar(k)
               /\ UNCHANGED error
    /\ UNCHANGED <<timeVars, evtVars, caldata, fileVars, pollVars, regexVars>>

\* download_calendars, lines 140-144: the next calendar reference is fetched when
\* sorted() asks for more; urlopen raises, or the status is not 200, or the body
\* is yielded
FetchCalendar ==
    /\ pc = "fetch"
    /\ LET k == Len(fetchLog) + 1
       IN  \/ /\ fetchLog' = Append(fetchLog, <<k, caldata[k].calid, "ok">>)
              /\ pc' = "parse"
              /\ UNCHANGED error
           \/ /\ fetchLog' = Append(fetchLog, <<k, caldata[k].calid, "urlerror">>)
              /\ Fail("URLError")
           \/ /\ fetchLog' = Append(fetchLog, <<k, caldata[k].calid, "status">>)
              /\ Fail("AssertionError")
    /\ UNCHANGED <<timeVars, evtVars, caldata, fileVars, pollVars, regexVars>>

\* get_calendar_events on the calendar just fetched, its events passing through
\* get_future_events into sorted(), lines 148-158 and 172
ParseCalendar ==
    /\ pc = "parse"
    /\ \/ /\ LET evts == CalendarEvents(caldata[Len(fetchLog)])
             IN  /\ evtdata' = evtdata \o evts
                 /\ future' = future \o FutureOf(now, evts)
          /\ pc' = AfterCalendar(Len(fetchLog))
          /\ UNCHANGED error
       \/ /\ Fail("ParseError")
          /\ UNCHANGED <<evtdata, future>>
    /\ UNCHANGED <<timeVars, events, rows, netVars, fileVars, pollVars, regexVars>>

\* a NamedTemporaryFile that outlives its with block (delete=False)
PollOutputKeepsHtml ==
    /\ pc = "poll"
    /\ IF pdf_exists
       THEN pc' = "export" /\ elapsed' = 0 /\ UNCHANGED error
       ELSE IF elapsed > Timeout
            THEN Fail("TimeoutError") /\ UNCHANGED elapsed
            ELSE \E over \in 0..MaxOversleep :
                     /\ elapsed' = elapsed + PollInterval + over
                     /\ UNCHANGED <<pc, error>>
    /\ UNCHANGED <<timeVars, evtVars, netVars, output, files, initFiles,
                   html_exists, htmlWritten, pdf_exists, npages, page,
                   renderer, regexVars>>

\* write_pdf_from_html, lines 203-209: the temporary HTML file is written and closed
WriteHtmlFile ==
    /\ pc = "rendered"
    /\ html_exists' = TRUE /\ htmlWritten' = TRUE
    /\ pc' = "browser"
    /\ UNCHANGED <<error, timeVars, evtVars, netVars, output, files, initFiles,
                   pdf_exists, npages, page, pollVars, regexVars>>

\* write_pdf_from_html, lines 211-223: subprocess.run(..., check=True) returns (the
\* PDF may be there already) and the clock is started, or it raises and the with
\* block deletes the HTML file
RunBrowser ==
    /\ pc = "browser"
    /\ \/ /\ pdf_exists' \in (IF renderer = "writes" THEN BOOLEAN ELSE {FALSE})
          /\ elapsed' = 0
          /\ pc' = "poll"
          /\ UNCHANGED <<error, html_exists>>
       \/ /\ Fail("CalledProcessError")
          /\ html_exists' = FALSE
          /\ UNCHANGED <<pdf_exists, elapsed>>
    /\ UNCHANGED <<timeVars, evtVars, netVars, output, files, initFiles,
                   htmlWritten, npages, page, renderer, regexVars>>

\* the browser, on its own time, writes the PDF
PdfAppears ==
    /\ pc = "poll"
    /\ renderer = "writes"
    /\ ~pdf_exists
    /\ pdf_exists' = TRUE
    /\ UNCHANGED <<pc, error, timeVars, evtVars, netVars, output, files, initFiles,
                   html_exists, htmlWritten, npages, page, pollVars, regexVars>>

\* write_pdf_from_html, lines 224-229: one turn of the poll loop.  The file is
\* there: the with block ends (the HTML file is deleted) and the path is
\* returned.  More than timeout has elapsed: TimeoutError, the with block
\* deleting the HTML file.  Otherwise sleep 0.1 s or somewhat longer.
PollOutput ==
    /\ pc = "poll"
    /\ IF pdf_exists
       THEN /\ pc' = "export" /\ elapsed' = 0 /\ html_exists' = FALSE
            /\ UNCHANGED error
       ELSE IF elapsed > Timeout
            THEN /\ Fail("TimeoutError") /\ html_exists' = FALSE
                 /\ UNCHANGED elapsed
            ELSE \E over \in 0..MaxOversleep :
                     /\ elapsed' = elapsed + PollInterval + over
                     /\ UNCHANGED <<pc, error, html_exists>>
    /\ UNCHANGED <<timeVars, evtVars, netVars, output, files, initFiles,
                   htmlWritten, pdf_exists, npages, page, renderer, regexVars>>

\* export_to_png, lines 236-237: every file glob returns is removed; a removal
\* that raises ends the run
RemoveOldImages ==
    /\ pc = "export"
    /\ LET old == Glob(GlobPattern(output), DOMAIN files)
       IN  \/ /\ files' = [n \in DOMAIN files \ old |-> files[n]]
              /\ pc' = "open"
              /\ UNCHANGED error
           \/ /\ old # {}
              /\ Fail("RemoveError")
              /\ UNCHANGED files
    /\ UNCHANGED <<timeVars, evtVars, netVars, output, initFiles,
                   html_exists, htmlWritten, pdf_exists, npages, page,
                   pollVars, regexVars>>

\* export_to_png, line 239: pymupdf.open(pdf_path)
OpenPdf ==
    /\ pc = "open"
    /\ \/ /\ npages' \in 1..MaxPages
          /\ page' = 0
          /\ pc' = "pages"
          /\ UNCHANGED error
       \/ /\ Fail("FileDataError")
          /\ UNCHANGED <<npages, page>>
    /\ UNCHANGED <<timeVars, evtVars, netVars, output, files, initFiles,
                   html_exists, htmlWritten, pdf_exists, pollVars, regexVars>>

\* export_to_png, lines 240-242: the next page is rasterized and saved, or
\* get_pixmap or save raises
SavePage ==
    /\ pc = "pages"
    /\ page < npages
    /\ \/ /\ LET name == PngName(output, page + 1)
             IN  files' = [n \in DOMAIN files \cup {name} |->
                              IF n = name THEN "new" ELSE files[n]]
          /\ page' = page + 1
          /\ UNCHANGED <<pc, error>>
       \/ /\ Fail("RasterError")
          /\ UNCHANGED <<files, page>>
    /\ UNCHANGED <<timeVars, evtVars, netVars, output, initFiles,
                   html_exists, htmlWritten, pdf_exists, npages,
                   pollVars, regexVars>>

\* export_to_png, lines 244-249: the PDF is removed, an OSError swallowed
RemovePdf ==
    /\ pc = "pages"
    /\ page = npages
    /\ pdf_exists' \in BOOLEAN
    /\ pc' = "startfile"
    /\ UNCHANGED <<error, timeVars, evtVars, netVars, output, files, initFiles,
                   html_exists, htmlWritten, npages, page, pollVars, regexVars>>

\* os.startfile(out_dir), line 274
StartFile ==
    /\ pc = "startfile"
    /\ \/ pc' = "done" /\ UNCHANGED error
       \/ Fail("StartFileError")
    /\ UNCHANGED <<timeVars, evtVars, netVars, fileVars, pollVars, regexVars>>

\* the steps of the program, which runs on until it ends
Step ==
    \/ LoadHtml \/ FetchCalendar \/ ParseCalendar
    \/ SortEvents \/ EventsToHtmlTable
    \/ WriteHtmlFile \/ RunBrowser \/ PollOutput
    \/ RemoveOldImages \/ OpenPdf \/ SavePage \/ RemovePdf \/ StartFile

Next == Step \/ PdfAppears

Spec == Init /\ [][Next]_vars

\* one run, of two calendars over leftover images, under the program's progress
InitLive ==
    /\ Init
    /\ caldata = << [calid |-> "x", clr |-> "#f00"], [calid |-> "y", clr |-> "#0f0"] >>
    /\ clock = 23 /\ start_of_day = FALSE
    /\ output = <<"e">>
    /\ initFiles = OldNames

SpecLive == InitLive /\ [][Next]_vars /\ WF_vars(Step)

----------------------------------------------------------------------------
(* Properties of the run (checked under Spec, C3 under SpecLive) *)

AfterRender ==
    {"rendered", "browser", "poll", "export", "open", "pages", "startfile", "done"}

RECURSIVE AllFeedEvents(_)
AllFeedEvents(cals) ==
    IF cals = <<>> THEN <<>>
    ELSE CalendarEvents(Head(cals)) \o AllFeedEvents(Tail(cals))

PassedFilter(e) == NormInstant(e.end) > now.t

CountPassed(all, e) ==
    Cardinality({i \in 1..Len(all) : all[i] = e /\ PassedFilter(e)})

\* C2: if any step of a run fails, no PNG output file of that run exists under
\* the output base name.
C2_NoOutputAfterFailure ==
    pc = "failed" => \A n \in DOMAIN files : files[n] # "new"

C6_FetchInOrderAbortOnFirstFailure ==
    /\ Len(fetchLog) <= Len(caldata)
    /\ \A i \in 1..Len(fetchLog) :
           /\ fetchLog[i][1] = i
           /\ fetchLog[i][2] = caldata[i].calid
           /\ fetchLog[i][3] # "ok" =>
                  /\ i = Len(fetchLog)
                  /\ pc = "failed"
                  /\ ~htmlWritten /\ ~html_exists /\ ~pdf_exists
                  /\ files = [n \in initFiles |-> "old"]
    /\ pc \in AfterRender =>
           /\ Len(fetchLog) = Len(caldata)
           /\ \A i \in 1..Len(fetchLog) : fetchLog[i][3] = "ok"

\* C6's case: the first of two calendars answers with a status other than 200
C6_Witness ==
    /\ pc = "failed" /\ error = "AssertionError"
    /\ Len(caldata) = 2
    /\ Len(fetchLog) = 1
    /\ fetchLog[1][3] = "status"
    /\ initFiles # {}

\* the files of the naming scheme <base>_*.png: the base, "_", anything, ".png"
InScheme(base, n) ==
    /\ Len(n) >= Len(base) + 5
    /\ SubSeq(n, 1, Len(base) + 1) = base \o <<"_">>
    /\ SubSeq(n, Len(n) - 3, Len(n)) = <<".", "p", "n", "g">>

\* C7: after export_to_png completes on a PDF of N pages, the files matching
\* <base>_*.png are exactly <base>_1.png ... <base>_N.png, written from the
\* current PDF, whatever files existed before.
C7_ExactlyThePagesOfThisRun ==
    pc \in {"startfile", "done"} =>
        /\ {n \in DOMAIN files : InScheme(output, n)}
               = {PngName(output, k) : k \in 1..npages}
        /\ \A k \in 1..npages : files[PngName(output, k)] = "new"

\* C3: if the output PDF never appears, write_pdf_from_html ends by raising
\* TimeoutError once more than 10 seconds have elapsed, and the temporary HTML
\* file no longer exists then.
C3_TimeoutThenHtmlGone ==
    /\ (pc = "poll" /\ renderer = "never")
           ~> (pc = "failed" /\ error = "TimeoutError" /\ ~html_exists)
    /\ [](error = "TimeoutError" =>
              elapsed > Timeout /\ ~html_exists /\ ~pdf_exists)
    /\ [](renderer = "never" => pc \notin {"export", "open", "pages", "startfile", "done"})

\* C3's case: the PDF never came and the poll loop gave up after the timeout
C3_Witness ==
    /\ pc = "failed" /\ error = "TimeoutError"
    /\ renderer = "never"
    /\ elapsed > Timeout
    /\ htmlWritten /\ ~html_exists

====
